---- MODULE Spec2Model ----
(***************************************************************************)
(* A model of matrix_calc (src/main.c): the line/token parser read_matrix  *)
(* and the linear-algebra engine with the handlers that drive it.          *)
(*                                                                         *)
(* Text is modelled at character level.  A token is a sequence of          *)
(* one-character strings; a physical line is a sequence of segments, each  *)
(* either a token or a run of n whitespace characters, followed by an      *)
(* implicit newline.  Runs let a line be longer than MAX_LINE_LENGTH       *)
(* without spelling out every character.                                   *)
(***************************************************************************)
EXTENDS Integers, Sequences, FiniteSets, TLC

\* Program constants (src/main.c:51-52).
MAX_LINE_LENGTH == 40000
MAX_ROWS_COLS == 2000

\* Bounds of the model: physical lines a file may hold, and how many of them
\* may be blank or comment lines.
MaxLines == 4
MaxSkips == 1

VARIABLES
    pc,           \* position of read_matrix
    history,      \* physical lines handed out by the file so far
    pending,      \* unread remainder of the physical line fgets cut short
    eof,          \* fgets has reported end of input
    line_number,  \* context->line_number
    token,        \* context->token
    rest,         \* tokens strtok still holds for the current buffer
    rows, cols,   \* locals of read_matrix
    i_row,        \* i, the row counter of read_array
    matrix,       \* the matrix allocated by create_matrix
    result,       \* what read_matrix returned to its caller
    outcome,      \* how the run ended
    diag,         \* what exit_invalid_file printed
    hpc,          \* position of the handler run by main
    operation,    \* the operation letter of argv, or a direct call of the engine
    mat_a, mat_b, \* the handler's input matrices a and b
    mat_c,        \* the handler's result matrix c
    scalar,       \* the number a handler printed (norm, determinant)
    status,       \* the exit status of the run
    errmsg,       \* what the handler printed on stderr
    swapped,      \* the swap notice was printed
    divisions,    \* divisions by the determinant get_inverse performed
    prodArgs,     \* the operands of the get_product call made, and who made it
    output        \* what output_matrix wrote to the output destination

parseVars == <<pc, history, pending, eof, line_number, token, rest, rows, cols,
               i_row, matrix, result, outcome, diag>>
algVars == <<hpc, operation, mat_a, mat_b, mat_c, scalar, status, errmsg, swapped, divisions,
             prodArgs, output>>
vars == <<parseVars, algVars>>

----------------------------------------------------------------------------
(* Characters, tokens, segments *)

NULL == <<>>                  \* the null token pointer (strtok found nothing)
WildToken == <<"?">>          \* an indeterminate pointer (never assigned)
UninitInts == {0, 21845}      \* values an unassigned int may hold

Digits == <<"0", "1", "2", "3", "4", "5", "6", "7", "8", "9">>
IsDigit(c) == \E d \in 1..10 : Digits[d] = c
DigitVal(c) == (CHOOSE d \in 1..10 : Digits[d] = c) - 1

Ws(n) == [t |-> <<>>, n |-> n]
Tk(t) == [t |-> t, n |-> Len(t)]

RECURSIVE SegsLen(_)
SegsLen(segs) ==
    IF segs = <<>> THEN 0 ELSE Head(segs).n + SegsLen(Tail(segs))

\* The first b characters of a segment / what is left after them.
SegTake(s, b) == IF s.t = <<>> THEN Ws(b) ELSE Tk(SubSeq(s.t, 1, b))
SegDrop(s, b) == IF s.t = <<>> THEN Ws(s.n - b) ELSE Tk(SubSeq(s.t, b + 1, s.n))

RECURSIVE TakeChars(_, _)
TakeChars(segs, b) ==
    IF segs = <<>> \/ b = 0 THEN <<>>
    ELSE LET s == Head(segs) IN
         IF s.n <= b THEN <<s>> \o TakeChars(Tail(segs), b - s.n)
         ELSE <<SegTake(s, b)>>

RECURSIVE DropChars(_, _)
DropChars(segs, b) ==
    IF segs = <<>> \/ b = 0 THEN segs
    ELSE LET s == Head(segs) IN
         IF s.n <= b THEN DropChars(Tail(segs), b - s.n)
         ELSE <<SegDrop(s, b)>> \o Tail(segs)

\* fgets(line, MAX_LINE_LENGTH, file) on a line whose characters before the
\* newline are segs: at most MAX_LINE_LENGTH-1 characters, the newline
\* included when it fits.  left.has says part of the line is still unread.
fgets(segs) ==
    IF SegsLen(segs) + 1 <= MAX_LINE_LENGTH - 1
    THEN [chunk |-> segs, left |-> [has |-> FALSE, segs |-> <<>>]]
    ELSE [chunk |-> TakeChars(segs, MAX_LINE_LENGTH - 1),
          left  |-> [has |-> TRUE, segs |-> DropChars(segs, MAX_LINE_LENGTH - 1)]]

\* strtok over TOKEN_SEPARATORS: the tokens of a buffer, in order.
RECURSIVE strtok(_)
strtok(segs) ==
    IF segs = <<>> THEN <<>>
    ELSE IF Head(segs).t = <<>> THEN strtok(Tail(segs))
    ELSE <<Head(segs).t>> \o strtok(Tail(segs))

\* The first token of a token list, NULL when there is none.
FirstTok(toks) == IF toks = <<>> THEN NULL ELSE Head(toks)
RestToks(toks) == IF toks = <<>> THEN <<>> ELSE Tail(toks)

\* read_line's test for a line to skip: no token, or one starting with '#'.
SkipsLine(tok) == tok = NULL \/ tok[1] = "#"

\* The test made after the last expected token of a line: something follows
\* that is not a comment.
TrailingJunk(tok) == tok # NULL /\ tok[1] # "#"

----------------------------------------------------------------------------
(* Number conversion *)

\* Number of leading digits of t from position p on.
RECURSIVE DigitRun(_, _)
DigitRun(t, p) ==
    IF p > Len(t) \/ ~IsDigit(t[p]) THEN 0 ELSE 1 + DigitRun(t, p + 1)

\* Decimal value of the digits t[p..q].
RECURSIVE Dec(_, _, _)
Dec(t, p, q) ==
    IF q < p THEN 0 ELSE 10 * Dec(t, p, q - 1) + DigitVal(t[q])

\* strtol(token, &end_ptr, 10): optional sign, then digits.  end is the
\* position of the first character not converted (Len+1: the terminator);
\* with no digits nothing is converted and end_ptr is the token itself.
strtol(t) ==
    LET sg == IF Len(t) > 0 /\ t[1] \in {"-", "+"} THEN 1 ELSE 0
        nd == DigitRun(t, sg + 1)
        mag == Dec(t, sg + 1, sg + nd)
    IN  IF nd = 0 THEN [value |-> 0, end |-> 1]
        ELSE [value |-> IF sg = 1 /\ t[1] = "-" THEN 0 - mag ELSE mag,
              end |-> sg + nd + 1]

\* strtod on tokens of the form [+-]digits followed by anything that does not
\* continue a number (the input alphabet has no '.', and no exponent or hex
\* forms): on these it converts what strtol converts.
strtod(t) == strtol(t)

MsgBadInt == "Stated rows or columns are invalid."
MsgTooBig == "Rows or columns of the matrix are bigger than the maximum value allowed."
MsgHdrTrail == "There are unexpected characters in the file."
MsgCols == "Number of stated columns does not match file."
MsgRows == "Number of stated rows does not match file."
MsgElem == "Matrix element is invalid."
MsgTrail == "Unexpected characters in the file."
MsgNoEnd == "Could not find the end of the file."

\* get_int: the value, or the message it exits with.
get_int(t) ==
    LET r == strtol(t) IN
    IF r.end <= Len(t) \/ r.value < 1 THEN [ok |-> FALSE, value |-> 0, msg |-> MsgBadInt]
    ELSE IF r.value > MAX_ROWS_COLS THEN [ok |-> FALSE, value |-> 0, msg |-> MsgTooBig]
    ELSE [ok |-> TRUE, value |-> r.value, msg |-> ""]

\* get_double: the value, or failure when characters follow the number.
get_double(t) ==
    LET r == strtod(t) IN
    IF r.end <= Len(t) THEN [ok |-> FALSE, value |-> 0]
    ELSE [ok |-> TRUE, value |-> r.value]

----------------------------------------------------------------------------
(* The parser: read_matrix and the functions it calls *)

tMatrix == <<"m", "a", "t", "r", "i", "x">>
tEnd == <<"e", "n", "d">>

NoMatrix == [rows |-> 0, cols |-> 0, values |-> <<>>]
NoDiag == [line |-> 0, token |-> NULL, message |-> "", printed |-> FALSE]

\* create_matrix: the dimensions and a buffer no element of which is written
\* yet (values is the function from the indices written so far).
create_matrix(r, c) == [rows |-> r, cols |-> c, values |-> <<>>]

\* matrix->values[idx] = v, idx counted from 0.
Store(m, idx, v) == [m EXCEPT !.values = (idx :> v) @@ m.values]

\* read_rows_cols on the first token of the header line and the tokens strtok
\* still holds.  st is "ok", "invalid" (exit_invalid_file with msg, the
\* context token being tok) or "nullarg" (get_int handed a null token, which
\* strtol dereferences).
read_rows_cols_fn(tok, toks) ==
    LET tR == FirstTok(toks)
        tC == FirstTok(RestToks(toks))
        tX == FirstTok(RestToks(RestToks(toks)))
        bad(t, m) == [st |-> "invalid", rows |-> 0, cols |-> 0, tok |-> t,
                      rest |-> <<>>, msg |-> m]
        nul == [st |-> "nullarg", rows |-> 0, cols |-> 0, tok |-> NULL,
                rest |-> <<>>, msg |-> ""]
    IN  IF tok # tMatrix THEN bad(tok, "")
        ELSE IF tR = NULL THEN nul
        ELSE IF ~get_int(tR).ok THEN bad(tR, get_int(tR).msg)
        ELSE IF tC = NULL THEN nul
        ELSE IF ~get_int(tC).ok THEN bad(tC, get_int(tC).msg)
        ELSE IF TrailingJunk(tX) THEN bad(tX, MsgHdrTrail)
        ELSE [st |-> "ok", rows |-> get_int(tR).value, cols |-> get_int(tC).value,
              tok |-> tX, rest |-> RestToks(RestToks(RestToks(toks))), msg |-> ""]

\* ElemIndex with the row stride taken from the wrong dimension.
ElemIndex_rows(m, r, j) == r * m.rows + j

\* The index i*matrix->cols + j of element (r, j).
ElemIndex(m, r, j) == r * m.cols + j

\* The inner loop of read_array for row r from column j on, followed by the
\* check after the loop.  tok is the current token, toks what strtok holds.
RECURSIVE read_array_row(_, _, _, _, _)
read_array_row(m, r, j, tok, toks) ==
    IF j >= m.cols THEN
        IF TrailingJunk(tok)
        THEN [st |-> "invalid", m |-> m, tok |-> tok, rest |-> toks, msg |-> MsgTrail]
        ELSE [st |-> "ok", m |-> m, tok |-> tok, rest |-> toks, msg |-> ""]
    ELSE IF tok = NULL
        THEN [st |-> "invalid", m |-> m, tok |-> tok, rest |-> toks, msg |-> MsgCols]
    ELSE IF tok = tEnd
        THEN [st |-> "invalid", m |-> m, tok |-> tok, rest |-> toks, msg |-> MsgRows]
    ELSE IF ~get_double(tok).ok
        THEN [st |-> "invalid", m |-> m, tok |-> tok, rest |-> toks, msg |-> MsgElem]
    ELSE read_array_row(Store(m, ElemIndex(m, r, j), get_double(tok).value), r, j + 1,
                        FirstTok(toks), RestToks(toks))

\* read_file_end on the first token of the line and the tokens strtok holds.
read_file_end_fn(tok, toks) ==
    IF tok # tEnd THEN [st |-> "invalid", tok |-> tok, rest |-> toks, msg |-> MsgNoEnd]
    ELSE IF TrailingJunk(FirstTok(toks))
        THEN [st |-> "invalid", tok |-> FirstTok(toks), rest |-> RestToks(toks),
              msg |-> MsgTrail]
    ELSE [st |-> "ok", tok |-> FirstTok(toks), rest |-> RestToks(toks), msg |-> ""]

\* What printing context->token with %s can do: a null or indeterminate
\* pointer is undefined behaviour (the run may print a placeholder and go on
\* to exit(INVALID_FILE), or trap).
PrintOutcomes(tok) ==
    IF tok = NULL \/ tok = WildToken THEN {"INVALID_FILE", "crash"} ELSE {"INVALID_FILE"}

\* exit_invalid_file(context, message), the context holding line ln and
\* token tok.
exit_invalid_file(ln, tok, msg) ==
    /\ pc' = "exit"
    /\ \E o \in PrintOutcomes(tok) :
         /\ outcome' = o
         /\ diag' = [line |-> ln, token |-> tok, message |-> msg, printed |-> TRUE]
    /\ result' = NoMatrix

\* A call that dereferences a null token (strtol(NULL, ...)): undefined
\* behaviour; the run traps, or reads bytes that fail get_int's validation.
null_token_deref(ln) ==
    /\ pc' = "exit"
    /\ result' = NoMatrix
    /\ \E o \in {"crash", "INVALID_FILE"} :
         /\ outcome' = o
         /\ diag' = IF o = "crash" THEN NoDiag
                    ELSE [line |-> ln, token |-> NULL, message |-> MsgBadInt,
                          printed |-> TRUE]

----------------------------------------------------------------------------
(* The input: the physical lines a file may hold *)

t0 == <<"0">>
t1 == <<"1">>
t2 == <<"2">>
tNeg1 == <<"-", "1">>
t12 == <<"1", "2">>
t2000 == <<"2", "0", "0", "0">>
t2001 == <<"2", "0", "0", "1">>
t1x == <<"1", "x">>
tFoo == <<"f", "o", "o">>
tHash == <<"#">>
tHashC == <<"#", "c">>

\* The line made of the tokens toks separated by single blanks.
RECURSIVE L(_)
L(toks) ==
    IF toks = <<>> THEN <<>>
    ELSE IF Len(toks) = 1 THEN <<Tk(toks[1])>>
    ELSE <<Tk(toks[1]), Ws(1)>> \o L(Tail(toks))

HeaderLines ==
    {L(<<tMatrix, r, c>>) : r \in {t1, t2}, c \in {t1, t2}}
    \cup {L(<<tMatrix, t2000, t1>>), L(<<tMatrix, t1, t2000>>),
          L(<<tMatrix, t2, t2, tHash, tFoo>>), <<Ws(2)>> \o L(<<tMatrix, t1, t2>>),
          L(<<tMatrix>>), L(<<tMatrix, t2>>), L(<<tMatrix, t0, t1>>),
          L(<<tMatrix, tNeg1, t1>>), L(<<tMatrix, t1, t0>>), L(<<tMatrix, t2001, t1>>),
          L(<<tMatrix, t1, t2001>>), L(<<tMatrix, t1x, t1>>), L(<<tMatrix, t1, tFoo>>),
          L(<<tMatrix, t1, t1, t1>>), L(<<tFoo, t1, t1>>)}

RowLines ==
    {L(<<v>>) : v \in {t1, t2, tNeg1, t12}}
    \cup {L(<<v, w>>) : v \in {t1, t2}, w \in {t1, t2, tNeg1}}
    \cup {L(<<t2, tHashC>>), L(<<t1, t2, tHash, tEnd>>), L(<<t1, tEnd>>), L(<<t1x>>),
          L(<<t1, tFoo>>), L(<<t1, t2, t1>>)}

EndLines == {L(<<tEnd>>), L(<<tEnd, tHash, t1>>), L(<<tEnd, t1>>)}

\* A comment whose text runs past the buffer, a header padded with blanks past
\* the buffer, and a blank line of exactly MAX_LINE_LENGTH-1 characters.
LongComment == <<Tk(tHash), Ws(MAX_LINE_LENGTH), Tk(t1)>>
LongHeader == L(<<tMatrix, t1, t1>>) \o <<Ws(MAX_LINE_LENGTH)>>
LongBlank == <<Ws(MAX_LINE_LENGTH - 1)>>

SkipLines ==
    {<<>>, <<Ws(3)>>, L(<<tHashC>>), L(<<tHash, tMatrix, t1, t1>>), LongComment, LongBlank}

LineSet == HeaderLines \cup RowLines \cup EndLines \cup SkipLines \cup {LongHeader}

\* The tokens of a physical line, whatever its length.
LineToks(l) == strtok(l)
IsSkipLine(l) == LineToks(l) = <<>> \/ Head(LineToks(l))[1] = "#"
IsLongLine(l) == SegsLen(l) + 1 > MAX_LINE_LENGTH - 1

RECURSIVE NumSkips(_)
NumSkips(h) ==
    IF h = <<>> THEN 0
    ELSE (IF IsSkipLine(Head(h)) THEN 1 ELSE 0) + NumSkips(Tail(h))

\* The lines the file may hold next, given what it has handed out.
NextLines(h) ==
    IF Len(h) >= MaxLines THEN {}
    ELSE {l \in LineSet : IsSkipLine(l) => NumSkips(h) < MaxSkips}

----------------------------------------------------------------------------
(* Actions of the parser *)

ParseInit(p) ==
    /\ pc = p
    /\ history = <<>>
    /\ pending = [has |-> FALSE, segs |-> <<>>]
    /\ eof = FALSE
    /\ line_number = 0
    /\ token = NULL
    /\ rest = <<>>
    /\ rows = 0
    /\ cols = 0
    /\ i_row = 0
    /\ matrix = NoMatrix
    /\ result = NoMatrix
    /\ outcome = "running"
    /\ diag = NoDiag

NoScalar == [kind |-> "none", v |-> 0]
NoCall == [caller |-> "none", m1 |-> NoMatrix, m2 |-> NoMatrix]
NoOutput == [opened |-> FALSE, written |-> FALSE, matrix |-> NoMatrix]

AlgInit(h, ops) ==
    /\ hpc = h
    /\ operation \in ops
    /\ mat_a = NoMatrix
    /\ mat_b = NoMatrix
    /\ mat_c = NoMatrix
    /\ scalar = NoScalar
    /\ status = "running"
    /\ errmsg = ""
    /\ swapped = FALSE
    /\ divisions = 0
    /\ prodArgs = NoCall
    /\ output = NoOutput

InitParse == ParseInit("fopen") /\ AlgInit("idle", {"none"})

\* read_matrix up to the first read_line: fopen, and the context whose file
\* and file_name are set while line_number and token are left unassigned.
fopen_fail ==
    /\ UNCHANGED algVars
    /\ pc = "fopen"
    /\ pc' = "exit"
    /\ outcome' = "FILE_OPEN_ERROR"
    /\ UNCHANGED <<history, pending, eof, line_number, token, rest, rows, cols, i_row,
                   matrix, result, diag>>

fopen_ok ==
    /\ UNCHANGED algVars
    /\ pc = "fopen"
    /\ pc' = "hdr_line"
    /\ line_number' \in UninitInts
    /\ token' = WildToken
    /\ UNCHANGED <<history, pending, eof, rest, rows, cols, i_row, matrix, result,
                   outcome, diag>>

LinePcs == {"hdr_line", "row_line", "end_line"}
AfterLine(p) == IF p = "hdr_line" THEN "hdr" ELSE IF p = "row_line" THEN "row" ELSE "end"

\* The part of read_line after fgets returned the buffer chunk: strtok, and
\* read_line again when the first token is null or starts with '#'.
read_line_got(chunk) ==
    LET toks == strtok(chunk)
        tok == FirstTok(toks)
    IN  /\ token' = tok
        /\ rest' = RestToks(toks)
        /\ pc' = IF SkipsLine(tok) THEN pc ELSE AfterLine(pc)
        /\ UNCHANGED <<eof, rows, cols, i_row, matrix, result, outcome, diag>>

\* read_line where fgets starts a new physical line.
read_line_new ==
    /\ UNCHANGED algVars
    /\ pc \in LinePcs
    /\ ~pending.has
    /\ ~eof
    /\ line_number' = line_number + 1
    /\ \E l \in NextLines(history) :
         /\ history' = Append(history, l)
         /\ pending' = fgets(l).left
         /\ read_line_got(fgets(l).chunk)

\* read_line where fgets continues a physical line it cut short.
read_line_more ==
    /\ UNCHANGED algVars
    /\ pc \in LinePcs
    /\ pending.has
    /\ line_number' = line_number + 1
    /\ history' = history
    /\ pending' = fgets(pending.segs).left
    /\ read_line_got(fgets(pending.segs).chunk)

\* read_line where fgets returns NULL: end of input.
read_line_eof ==
    /\ UNCHANGED algVars
    /\ pc \in LinePcs
    /\ ~pending.has
    /\ ~eof
    /\ eof' = TRUE
    /\ line_number' = line_number + 1
    /\ exit_invalid_file(line_number + 1, token, "")
    /\ UNCHANGED <<history, pending, token, rest, rows, cols, i_row, matrix>>

\* read_rows_cols, then create_matrix.
read_rows_cols ==
    /\ UNCHANGED algVars
    /\ pc = "hdr"
    /\ LET r == read_rows_cols_fn(token, rest) IN
       \/ /\ r.st = "ok"
          /\ rows' = r.rows
          /\ cols' = r.cols
          /\ matrix' = create_matrix(r.rows, r.cols)
          /\ token' = r.tok
          /\ rest' = r.rest
          /\ i_row' = 0
          /\ pc' = "row_line"
          /\ UNCHANGED <<result, outcome, diag>>
       \/ /\ r.st = "invalid"
          /\ token' = r.tok
          /\ exit_invalid_file(line_number, r.tok, r.msg)
          /\ UNCHANGED <<rest, rows, cols, i_row, matrix>>
       \/ /\ r.st = "nullarg"
          /\ token' = NULL
          /\ null_token_deref(line_number)
          /\ UNCHANGED <<rest, rows, cols, i_row, matrix>>
    /\ UNCHANGED <<history, pending, eof, line_number>>

\* One pass of read_array's outer loop, after its read_line.
read_array ==
    /\ UNCHANGED algVars
    /\ pc = "row"
    /\ LET r == read_array_row(matrix, i_row, 0, token, rest) IN
       \/ /\ r.st = "ok"
          /\ matrix' = r.m
          /\ i_row' = i_row + 1
          /\ pc' = IF i_row + 1 < matrix.rows THEN "row_line" ELSE "end_line"
          /\ token' = r.tok
          /\ rest' = r.rest
          /\ UNCHANGED <<result, outcome, diag>>
       \/ /\ r.st = "invalid"
          /\ matrix' = NoMatrix
          /\ token' = r.tok
          /\ exit_invalid_file(line_number, r.tok, r.msg)
          /\ UNCHANGED <<rest, i_row>>
    /\ UNCHANGED <<history, pending, eof, line_number, rows, cols>>

\* read_file_end after its read_line, then fclose and the return.
read_file_end ==
    /\ UNCHANGED algVars
    /\ pc = "end"
    /\ LET r == read_file_end_fn(token, rest) IN
       \/ /\ r.st = "ok"
          /\ pc' = "done"
          /\ result' = matrix
          /\ outcome' = "ok"
          /\ token' = r.tok
          /\ UNCHANGED <<matrix, diag>>
       \/ /\ r.st = "invalid"
          /\ matrix' = NoMatrix
          /\ token' = r.tok
          /\ exit_invalid_file(line_number, r.tok, r.msg)
    /\ UNCHANGED <<history, pending, eof, line_number, rest, rows, cols, i_row>>

NextParse ==
    \/ fopen_fail
    \/ fopen_ok
    \/ read_line_new
    \/ read_line_more
    \/ read_line_eof
    \/ read_rows_cols
    \/ read_array
    \/ read_file_end

SpecParse == InitParse /\ [][NextParse]_vars

----------------------------------------------------------------------------
(* The file format, stated on the physical lines independently of the parser *)

\* The numeric tokens of the input alphabet and the numbers they denote.
NumOf ==
    (t0 :> 0) @@ (t1 :> 1) @@ (t2 :> 2) @@ (tNeg1 :> (0 - 1)) @@ (t12 :> 12)
    @@ (t2000 :> 2000) @@ (t2001 :> 2001)
IsNumeric(t) == t \in DOMAIN NumOf
IsDim(t) == IsNumeric(t) /\ NumOf[t] >= 1 /\ NumOf[t] <= MAX_ROWS_COLS

\* The tokens of a line before its comment.
RECURSIVE Content(_)
Content(toks) ==
    IF toks = <<>> \/ Head(toks)[1] = "#" THEN <<>>
    ELSE <<Head(toks)>> \o Content(Tail(toks))

\* The significant lines: neither blank nor comment, as content tokens.
RECURSIVE SigLines(_)
SigLines(h) ==
    IF h = <<>> THEN <<>>
    ELSE IF IsSkipLine(Head(h)) THEN SigLines(Tail(h))
    ELSE <<Content(LineToks(Head(h)))>> \o SigLines(Tail(h))

HeaderValid(c) == Len(c) = 3 /\ c[1] = tMatrix /\ IsDim(c[2]) /\ IsDim(c[3])
RowValid(c, C) == Len(c) = C /\ \A k \in 1..Len(c) : IsNumeric(c[k])
EndValid(c) == c = <<tEnd>>

DeclR(sig) == NumOf[sig[1][2]]
DeclC(sig) == NumOf[sig[1][3]]

\* h is a whole well-formed input: header, R rows of C numbers, end.
WellFormed(h) ==
    LET sig == SigLines(h) IN
    /\ Len(sig) >= 1
    /\ HeaderValid(sig[1])
    /\ Len(sig) = DeclR(sig) + 2
    /\ \A k \in 2..(Len(sig) - 1) : RowValid(sig[k], DeclC(sig))
    /\ EndValid(sig[Len(sig)])

\* h is the beginning of a well-formed input.
WFPrefix(h) ==
    LET sig == SigLines(h) IN
    \/ sig = <<>>
    \/ /\ HeaderValid(sig[1])
       /\ Len(sig) <= DeclR(sig) + 2
       /\ \A k \in 2..Len(sig) :
            IF k <= DeclR(sig) + 1 THEN RowValid(sig[k], DeclC(sig)) ELSE EndValid(sig[k])

\* m holds the numbers of the well-formed input h, row-major.
HoldsInput(m, h) ==
    LET sig == SigLines(h)
        R == DeclR(sig)
        C == DeclC(sig)
    IN  /\ m.rows = R
        /\ m.cols = C
        /\ DOMAIN m.values = 0..(R * C - 1)
        /\ \A r \in 0..(R - 1) : \A c \in 0..(C - 1) :
             m.values[r * C + c] = NumOf[sig[2 + r][c + 1]]

ShortLines(h) == \A k \in 1..Len(h) : ~IsLongLine(h[k])
LongSeen(h) == \E k \in 1..Len(h) : IsLongLine(h[k])

\* The 1-based number of the physical line the parser is at: the last line
\* handed out, or the one after it once end of input was hit.
PhysLine == IF eof THEN Len(history) + 1 ELSE Len(history)

ParseRan == pc \in {"done", "exit"} /\ outcome # "FILE_OPEN_ERROR"
FormatFailure == pc = "exit" /\ diag.printed

----------------------------------------------------------------------------
(* Claims about the parser *)

Claim_C2 == FormatFailure => diag.line = PhysLine

\* C3: on every format failure the reported token is a defined token of the
\* current line.
Claim_C3 ==
    FormatFailure =>
        /\ diag.token # NULL
        /\ diag.token # WildToken
        /\ history # <<>>
        /\ \E k \in 1..Len(LineToks(history[Len(history)])) :
             LineToks(history[Len(history)])[k] = diag.token

\* C4: after a valid header, a wrong number of data rows (end inside a row,
\* no end after the rows, or end of input before end) ends the parse with the
\* InvalidFormat outcome and no matrix returned; it never crashes.
Claim_C4 ==
    (/\ pc = "exit"
     /\ rows >= 1
     /\ ShortLines(history)
     /\ (eof \/ diag.message \in {MsgRows, MsgNoEnd}))
    => (outcome = "INVALID_FILE" /\ result = NoMatrix)

\* C5: an input whose first significant line is not a valid header fails
\* with InvalidFormat and no matrix is allocated or returned.
Claim_C5 ==
    (/\ ShortLines(history)
     /\ SigLines(history) # <<>>
     /\ ~HeaderValid(SigLines(history)[1]))
    => /\ pc \in {"hdr", "exit"}
       /\ matrix = NoMatrix
       /\ result = NoMatrix
       /\ pc = "exit" => outcome = "INVALID_FILE"

\* C6: an input with a physical line longer than the maximum line length is
\* never parsed successfully.
Claim_C6 == LongSeen(history) => pc # "done"

\* C7: every format failure carries a non-empty reason.
Claim_C7 == FormatFailure => diag.message # ""

----------------------------------------------------------------------------
(* The algebra engine.  A matrix is [rows, cols, values], values a function  *)
(* on the buffer indices 0..rows*cols-1; elements are integers, on which the *)
(* double arithmetic of the code is exact, and quotients are fractions.      *)

\* pow(-1, n) for an index n >= 0.
MinusOnePow(n) == IF n % 2 = 0 THEN 1 ELSE 0 - 1

\* The pairs (x, y) of "for x < X: for y < Y" in the order the loops visit them.
Loop2(X, Y) == [s \in 1..(X * Y) |-> <<(s - 1) \div Y, (s - 1) % Y>>]

\* A buffer read: an index outside the buffer yields the garbage value g.
ReadAt(m, idx, g) == IF idx \in DOMAIN m.values THEN m.values[idx] ELSE g

\* The stores writes[1], writes[2], ... (pairs <<index, value>>) into m, in order.
RECURSIVE StoreAll(_, _)
StoreAll(m, writes) ==
    IF writes = <<>> THEN m
    ELSE StoreAll(Store(m, Head(writes)[1], Head(writes)[2]), Tail(writes))

\* get_frob_norm: pow(sum of squares, 0.5), kept as the number under the root.
RECURSIVE SumSquares(_, _)
SumSquares(m, n) ==
    IF n = 0 THEN 0 ELSE SumSquares(m, n - 1) + m.values[n - 1] * m.values[n - 1]

get_frob_norm(m) == [sqrt_of |-> SumSquares(m, m.rows * m.cols)]

\* TransposeWrite with the index of the element read.
TransposeWrite_same(new_mat, i, j) == i * new_mat.cols + j

\* The index get_transpose writes in new_mat, and the one it reads in
\* matrix, at loop position (i, j).
TransposeWrite(new_mat, i, j) == j * new_mat.cols + i
TransposeRead(m, i, j) == i * m.cols + j

\* get_transpose.
get_transpose(m) ==
    LET new_mat == create_matrix(m.cols, m.rows)
        loop == Loop2(new_mat.cols, new_mat.rows)
    IN  StoreAll(new_mat,
                 [s \in DOMAIN loop |->
                    <<TransposeWrite(new_mat, loop[s][1], loop[s][2]),
                      m.values[TransposeRead(m, loop[s][1], loop[s][2])]>>])

\* The innermost loop of get_product for element (k, i), from j on, added to sum.
RECURSIVE InnerProduct(_, _, _, _, _, _, _)
InnerProduct(m1, m2, k, i, j, sum, g) ==
    IF j >= m1.cols THEN sum
    ELSE InnerProduct(m1, m2, k, i, j + 1,
                      sum + ReadAt(m1, k * m1.cols + j, g) * ReadAt(m2, j * m2.cols + i, g),
                      g)

\* ResetSum leaving the sum as it is.
ResetSum_keep(sum) == sum

\* What get_product does to sum after storing an element.
ResetSum(sum) == 0

\* The two outer loops of get_product from loop position s on, carrying sum.
RECURSIVE ProductLoop(_, _, _, _, _, _)
ProductLoop(m1, m2, new_mat, s, sum, g) ==
    IF s > new_mat.rows * new_mat.cols THEN new_mat
    ELSE LET k == Loop2(new_mat.rows, new_mat.cols)[s][1]
             i == Loop2(new_mat.rows, new_mat.cols)[s][2]
             sm == InnerProduct(m1, m2, k, i, 0, sum, g)
         IN  ProductLoop(m1, m2, Store(new_mat, k * new_mat.cols + i, sm), s + 1,
                         ResetSum(sm), g)

\* get_product; g is what a read outside a buffer yields.
get_product_g(m1, m2, g) == ProductLoop(m1, m2, create_matrix(m1.rows, m2.cols), 1, 0, g)
get_product(m1, m2) == get_product_g(m1, m2, 0)

\* get_product reads outside matrix2's buffer.
ProductReadsOutside(m1, m2) ==
    \E k \in 0..(m1.rows - 1), i \in 0..(m2.cols - 1), j \in 0..(m1.cols - 1) :
        \/ k * m1.cols + j \notin DOMAIN m1.values
        \/ j * m2.cols + i \notin DOMAIN m2.values

\* The buffer find_det and find_cofactor fill: the elements of m outside row
\* skip_row and column skip_col, in loop order from row first_row on.
RECURSIVE KeepSeq(_, _, _, _)
KeepSeq(m, loop, skip_row, skip_col) ==
    IF loop = <<>> THEN <<>>
    ELSE LET r == Head(loop)[1]
             c == Head(loop)[2]
         IN  (IF c # skip_col /\ r # skip_row THEN <<m.values[r * m.cols + c]>> ELSE <<>>)
             \o KeepSeq(m, Tail(loop), skip_row, skip_col)

MinorOf(m, skip_row, skip_col) ==
    LET kept == KeepSeq(m, Loop2(m.rows, m.cols), skip_row, skip_col) IN
    StoreAll(create_matrix(m.rows - 1, m.cols - 1),
             [k \in DOMAIN kept |-> <<k - 1, kept[k]>>])

\* The 2 x 2 base case of find_det.
Det2(m) == m.values[0] * m.values[3] - m.values[1] * m.values[2]

\* DetTerm without the alternating sign.
DetTerm_unsigned(m, top_row, sub_det) == m.values[top_row] * sub_det

\* The term find_det adds for top-row element top_row, given the
\* determinant of its sub matrix.
DetTerm(m, top_row, sub_det) == MinusOnePow(top_row) * m.values[top_row] * sub_det

\* find_det: expansion along the top row, from column top_row on.
RECURSIVE find_det(_)
RECURSIVE find_det_from(_, _)
find_det_from(m, top_row) ==
    IF top_row >= m.cols THEN 0
    ELSE DetTerm(m, top_row, find_det(MinorOf(m, 0, top_row)))
         + find_det_from(m, top_row + 1)

find_det(m) == IF m.rows = 2 THEN Det2(m) ELSE find_det_from(m, 0)

\* get_determinant.
get_determinant(m) == IF m.rows = 1 THEN m.values[0] ELSE find_det(m)

\* CofactorAt without the sign.
CofactorAt_unsigned(m, r, c) == get_determinant(MinorOf(m, r, c))

\* find_cofactor.
CofactorAt(m, r, c) == MinusOnePow(r + c) * get_determinant(MinorOf(m, r, c))

find_cofactor(m) ==
    LET new_mat == create_matrix(m.rows, m.cols)
        loop == Loop2(m.rows, m.cols)
    IN  StoreAll(new_mat,
                 [s \in DOMAIN loop |->
                    <<loop[s][1] * new_mat.cols + loop[s][2],
                      CofactorAt(m, loop[s][1], loop[s][2])>>])

\* get_adjoint returning the cofactor matrix as it is.
get_adjoint_cofactor(m) ==
    IF m.rows = 1 THEN Store(create_matrix(m.rows, m.cols), 0, 1)
    ELSE find_cofactor(m)

\* get_adjoint.
get_adjoint(m) ==
    IF m.rows = 1 THEN Store(create_matrix(m.rows, m.cols), 0, 1)
    ELSE get_transpose(find_cofactor(m))

\* The double x / d as a fraction in lowest terms with a positive
\* denominator; a zero d gives no trap but an infinity or a NaN, kept as
\* sign/0.
Abs(x) == IF x < 0 THEN 0 - x ELSE x
Sgn(x) == IF x < 0 THEN 0 - 1 ELSE IF x > 0 THEN 1 ELSE 0
RECURSIVE Gcd(_, _)
Gcd(x, y) == IF y = 0 THEN x ELSE Gcd(y, x % y)
Quot(x, d) ==
    IF d = 0 THEN [num |-> Sgn(x), den |-> 0]
    ELSE LET g == Gcd(Abs(x), Abs(d)) IN
         [num |-> Sgn(d) * (x \div g), den |-> Abs(d) \div g]

\* IsSingular with the test left out.
IsSingular_never(det) == FALSE

\* get_inverse's test of the determinant, and the matrix it returns when the
\* test lets it go on.
IsSingular(det) == det = 0

get_inverse(m) ==
    LET det == get_determinant(m)
        adj_mat == get_adjoint(m)
        inv_mat == create_matrix(m.rows, m.cols)
        loop == Loop2(m.rows, m.cols)
    IN  StoreAll(inv_mat,
                 [s \in DOMAIN loop |->
                    <<loop[s][1] * inv_mat.cols + loop[s][2],
                      Quot(adj_mat.values[loop[s][1] * adj_mat.cols + loop[s][2]], det)>>])

----------------------------------------------------------------------------
(* The inputs of the handlers: the matrices read_matrix may return *)

\* Bounds: the number of elements of an input matrix, and of each operand of
\* a product.
MaxCells == 9
MaxProdCells == 4

Vals == {0, 1}

Shapes(n) == {s \in (1..n) \X (1..n) : s[1] * s[2] <= n}
MatricesOver(r, k, vs) ==
    {[rows |-> r, cols |-> k, values |-> v] : v \in [0..(r * k - 1) -> vs]}
Matrices(n) == UNION {MatricesOver(s[1], s[2], Vals) : s \in Shapes(n)}

\* More square matrices, with negative and larger elements: all 1 x 1 and
\* 2 x 2 matrices over five values, all 3 x 3 matrices over two, and 4 x 4
\* permutation matrices with entries 2 and one more entry set to -1 or 1.
Perms4 == {p \in [0..3 -> 0..3] : \A x, y \in 0..3 : p[x] = p[y] => x = y}
Sample4 ==
    {[rows |-> 4, cols |-> 4,
      values |-> [k \in 0..15 |-> IF k = e THEN w
                                  ELSE IF p[k \div 4] = k % 4 THEN 2 ELSE 0]] :
        p \in Perms4, e \in {1, 6, 8, 15}, w \in {0 - 1, 1}}
SquareSamples ==
    MatricesOver(1, 1, {0 - 2, 0 - 1, 0, 1, 3})
    \cup MatricesOver(2, 2, {0 - 2, 0 - 1, 0, 1, 3})
    \cup MatricesOver(3, 3, {0 - 1, 2})
    \cup Sample4

\* More operands of a product: 2 x 3, 3 x 2 and 3 x 3 matrices whose elements
\* are all different, some of them negative.
ProdSamples ==
    {[rows |-> sh[1], cols |-> sh[2],
      values |-> [k \in 0..(sh[1] * sh[2] - 1) |-> sg * (k + st)]] :
        sh \in {<<2, 3>>, <<3, 2>>, <<3, 3>>}, st \in {0 - 2, 1}, sg \in {0 - 1, 1}}

OneFileOps == {"f", "t", "d", "a", "i"}
TwoFileOps == {"m", "get_product"}

InputsFor(o) ==
    IF o \in TwoFileOps THEN Matrices(MaxProdCells) \cup ProdSamples
    ELSE IF o \in {"d", "a", "i"} THEN Matrices(MaxCells) \cup SquareSamples
    ELSE Matrices(MaxCells)

----------------------------------------------------------------------------
(* The handlers of main *)

MsgNoProduct == "It is not possible to find the matrix product of these two matrices."
MsgDetSquare == "This matrix is not square, thus the determinant cannot be found."
MsgAdjSquare == "This matrix is not square, thus the adjoint cannot be found."
MsgInvSquare == "This matrix is not square, thus the inverse of the matrix could not be found."
MsgSingular == "The determinant is 0, so the inverse of the matrix could not be found."

Init == ParseInit("idle") /\ AlgInit("start", OneFileOps \cup TwoFileOps)

\* A handler's read_matrix call that does not return: the file cannot be
\* opened, or the parser exits.
read_matrix_fail ==
    /\ hpc \in {"start", "read1"}
    /\ hpc' = "exit"
    /\ \E st \in {"FILE_OPEN_ERROR", "INVALID_FILE", "crash"} : status' = st
    /\ UNCHANGED <<operation, mat_a, mat_b, mat_c, scalar, errmsg, swapped, divisions,
                   prodArgs, output>>
    /\ UNCHANGED parseVars

\* A handler's read_matrix call that returns a matrix: the first input, or
\* the second one of a product.
read_matrix_ok ==
    /\ hpc \in {"start", "read1"}
    /\ \E m \in InputsFor(operation) :
         IF hpc = "start"
         THEN /\ mat_a' = m
              /\ mat_b' = mat_b
              /\ hpc' = IF operation \in TwoFileOps THEN "read1" ELSE "parsed"
         ELSE /\ mat_b' = m
              /\ mat_a' = mat_a
              /\ hpc' = "parsed"
    /\ UNCHANGED <<operation, mat_c, scalar, status, errmsg, swapped, divisions,
                   prodArgs, output>>
    /\ UNCHANGED parseVars

\* exit_invalid_matrix that prints the message and lets the handler go on.
exit_invalid_matrix_continue(msg) ==
    /\ hpc' = "computed"
    /\ status' = "INVALID_MATRIX"
    /\ errmsg' = msg
    /\ UNCHANGED <<operation, mat_a, mat_b, mat_c, scalar, swapped, divisions, prodArgs,
                   output>>

\* exit(INVALID_MATRIX) after the message msg on stderr.
exit_invalid_matrix(msg) ==
    /\ hpc' = "exit"
    /\ status' = "INVALID_MATRIX"
    /\ errmsg' = msg
    /\ UNCHANGED <<operation, mat_a, mat_b, mat_c, scalar, swapped, divisions, prodArgs,
                   output>>

\* The square check of determinant, adjoint and inverse.
NotSquare(m) == m.rows # m.cols

\* NeitherOrder comparing the columns of the second operand with the
\* columns, not the rows, of the first.
NeitherOrder_cols(m1, m2) == m1.cols # m2.rows /\ m2.cols # m1.cols

\* SwapOrder without the test of the stated order.
SwapOrder_always(m1, m2) == m2.cols = m1.rows

\* The two tests of product on the shapes of its operands.
NeitherOrder(m1, m2) == m1.cols # m2.rows /\ m2.cols # m1.rows
SwapOrder(m1, m2) == m1.cols # m2.rows /\ m2.cols = m1.rows

frobenius_norm ==
    /\ hpc = "parsed"
    /\ operation = "f"
    /\ scalar' = [kind |-> "norm", v |-> get_frob_norm(mat_a).sqrt_of]
    /\ hpc' = "done"
    /\ status' = "NO_ERROR"
    /\ UNCHANGED <<operation, mat_a, mat_b, mat_c, errmsg, swapped, divisions, prodArgs,
                   output>>
    /\ UNCHANGED parseVars

transpose ==
    /\ hpc = "parsed"
    /\ operation = "t"
    /\ mat_c' = get_transpose(mat_a)
    /\ hpc' = "computed"
    /\ UNCHANGED <<operation, mat_a, mat_b, scalar, status, errmsg, swapped, divisions,
                   prodArgs, output>>
    /\ UNCHANGED parseVars

product ==
    /\ hpc = "parsed"
    /\ operation = "m"
    /\ \/ /\ NeitherOrder(mat_a, mat_b)
          /\ exit_invalid_matrix(MsgNoProduct)
       \/ /\ ~NeitherOrder(mat_a, mat_b)
          /\ SwapOrder(mat_a, mat_b)
          /\ swapped' = TRUE
          /\ prodArgs' = [caller |-> "product", m1 |-> mat_b, m2 |-> mat_a]
          /\ mat_c' = get_product(mat_b, mat_a)
          /\ hpc' = "computed"
          /\ UNCHANGED <<operation, mat_a, mat_b, scalar, status, errmsg, divisions, output>>
       \/ /\ ~NeitherOrder(mat_a, mat_b)
          /\ ~SwapOrder(mat_a, mat_b)
          /\ prodArgs' = [caller |-> "product", m1 |-> mat_a, m2 |-> mat_b]
          /\ mat_c' = get_product(mat_a, mat_b)
          /\ hpc' = "computed"
          /\ UNCHANGED <<operation, mat_a, mat_b, scalar, status, errmsg, swapped,
                         divisions, output>>
    /\ UNCHANGED parseVars

determinant ==
    /\ hpc = "parsed"
    /\ operation = "d"
    /\ \/ /\ NotSquare(mat_a)
          /\ exit_invalid_matrix(MsgDetSquare)
       \/ /\ ~NotSquare(mat_a)
          /\ scalar' = [kind |-> "det", v |-> get_determinant(mat_a)]
          /\ hpc' = "done"
          /\ status' = "NO_ERROR"
          /\ UNCHANGED <<operation, mat_a, mat_b, mat_c, errmsg, swapped, divisions,
                         prodArgs, output>>
    /\ UNCHANGED parseVars

adjoint ==
    /\ hpc = "parsed"
    /\ operation = "a"
    /\ \/ /\ NotSquare(mat_a)
          /\ exit_invalid_matrix(MsgAdjSquare)
       \/ /\ ~NotSquare(mat_a)
          /\ mat_c' = get_adjoint(mat_a)
          /\ hpc' = "computed"
          /\ UNCHANGED <<operation, mat_a, mat_b, scalar, status, errmsg, swapped,
                         divisions, prodArgs, output>>
    /\ UNCHANGED parseVars

\* inverse, with get_inverse: the square check, the test of the determinant,
\* then one division for each element.
inverse ==
    /\ hpc = "parsed"
    /\ operation = "i"
    /\ \/ /\ NotSquare(mat_a)
          /\ exit_invalid_matrix(MsgInvSquare)
       \/ /\ ~NotSquare(mat_a)
          /\ IsSingular(get_determinant(mat_a))
          /\ exit_invalid_matrix(MsgSingular)
       \/ /\ ~NotSquare(mat_a)
          /\ ~IsSingular(get_determinant(mat_a))
          /\ mat_c' = get_inverse(mat_a)
          /\ divisions' = mat_a.rows * mat_a.cols
          /\ hpc' = "computed"
          /\ UNCHANGED <<operation, mat_a, mat_b, scalar, status, errmsg, swapped,
                         prodArgs, output>>
    /\ UNCHANGED parseVars

\* output_matrix: the result written to the output file or to stdout.
output_matrix ==
    /\ hpc = "computed"
    /\ output' = [opened |-> TRUE, written |-> TRUE, matrix |-> mat_c]
    /\ hpc' = "done"
    /\ status' = "NO_ERROR"
    /\ UNCHANGED <<operation, mat_a, mat_b, mat_c, scalar, errmsg, swapped, divisions,
                   prodArgs>>
    /\ UNCHANGED parseVars

\* output_matrix when the output file cannot be opened.
output_open_fail ==
    /\ hpc = "computed"
    /\ hpc' = "exit"
    /\ status' = "FILE_OPEN_ERROR"
    /\ UNCHANGED <<operation, mat_a, mat_b, mat_c, scalar, errmsg, swapped, divisions,
                   prodArgs, output>>
    /\ UNCHANGED parseVars

\* The engine's get_product called on two matrices as they are, without the
\* handler.  Reads outside a buffer are undefined behaviour: they yield some
\* value, or the run traps.
GarbageVals == {0, 7}

get_product_direct ==
    /\ hpc = "parsed"
    /\ operation = "get_product"
    /\ prodArgs' = [caller |-> "direct", m1 |-> mat_a, m2 |-> mat_b]
    /\ hpc' = "returned"
    /\ \E g \in GarbageVals :
         /\ mat_c' = get_product_g(mat_a, mat_b, g)
         /\ \E st \in (IF ProductReadsOutside(mat_a, mat_b) THEN {"returned", "crash"}
                       ELSE {"returned"}) : status' = st
    /\ UNCHANGED <<operation, mat_a, mat_b, scalar, errmsg, swapped, divisions, output>>
    /\ UNCHANGED parseVars

Next ==
    \/ read_matrix_fail
    \/ read_matrix_ok
    \/ frobenius_norm
    \/ transpose
    \/ product
    \/ determinant
    \/ adjoint
    \/ inverse
    \/ output_matrix
    \/ output_open_fail
    \/ get_product_direct

Spec == Init /\ [][Next]_vars

----------------------------------------------------------------------------
(* The determinant, stated independently of the engine *)

\* Sum of f[x] over the finite set S.
RECURSIVE SumOver(_, _)
SumOver(S, f) ==
    IF S = {} THEN 0
    ELSE LET x == CHOOSE y \in S : TRUE IN f[x] + SumOver(S \ {x}, f)

PermsOf(n) == {p \in [0..(n - 1) -> 0..(n - 1)] : \A x, y \in 0..(n - 1) : p[x] = p[y] => x = y}
Inversions(p, n) == Cardinality({xy \in (0..(n - 1)) \X (0..(n - 1)) : xy[1] < xy[2] /\ p[xy[1]] > p[xy[2]]})

RECURSIVE ProdAlong(_, _, _)
ProdAlong(m, p, r) ==
    IF r >= m.rows THEN 1 ELSE m.values[r * m.cols + p[r]] * ProdAlong(m, p, r + 1)

\* The Leibniz formula: the sum over the permutations p of
\* sign(p) * product of m[r, p(r)].
MathDet(m) ==
    SumOver(PermsOf(m.rows),
            [p \in PermsOf(m.rows) |-> MinusOnePow(Inversions(p, m.rows)) * ProdAlong(m, p, 0)])

\* m with row dr and column dc deleted, rows and columns in their order.
MathMinor(m, dr, dc) ==
    [rows |-> m.rows - 1, cols |-> m.cols - 1,
     values |-> [k \in 0..((m.rows - 1) * (m.cols - 1) - 1) |->
                   LET r == k \div (m.cols - 1)
                       q == k % (m.cols - 1)
                   IN  m.values[(IF r < dr THEN r ELSE r + 1) * m.cols
                                + (IF q < dc THEN q ELSE q + 1)]]]

\* Expansion along the first row with the mathematical minors.
FirstRowExpansion(m) ==
    SumOver(0..(m.cols - 1),
            [k \in 0..(m.cols - 1) |->
               MinusOnePow(k) * m.values[k] * MathDet(MathMinor(m, 0, k))])

IsSquareInput(m) == m # NoMatrix /\ m.rows = m.cols

----------------------------------------------------------------------------
(* Claims about the engine and the handlers *)

\* C8: for every square matrix the determinant handler prints, what
\* get_determinant returned is the determinant: the element for n = 1,
\* a00*a11 - a01*a10 for n = 2, and for n > 2 the first-row cofactor expansion
\* over minors that are the matrix without row 0 and column c.
Thm_C8 ==
    (hpc = "done" /\ operation = "d") =>
        /\ IsSquareInput(mat_a)
        /\ scalar.v = MathDet(mat_a)
        /\ mat_a.rows = 1 => scalar.v = mat_a.values[0]
        /\ mat_a.rows = 2 =>
             scalar.v = mat_a.values[0] * mat_a.values[3] - mat_a.values[1] * mat_a.values[2]
        /\ mat_a.rows > 2 =>
             /\ scalar.v = FirstRowExpansion(mat_a)
             /\ \A k \in 0..(mat_a.cols - 1) : MinorOf(mat_a, 0, k) = MathMinor(mat_a, 0, k)

\* The determinant of a 4 x 4 matrix was printed and is negative.
Wit_C8 == hpc = "done" /\ operation = "d" /\ mat_a.rows = 4 /\ scalar.v < 0

InverseRan ==
    /\ operation = "i"
    /\ hpc \in {"computed", "done", "exit"}
    /\ IsSquareInput(mat_a)

\* C9: the inverse of a square matrix with determinant 0 ends in the
\* singular-matrix failure with no division made and no matrix produced or
\* output; with a nonzero determinant it does not end in that failure.
Thm_C9 ==
    /\ (InverseRan /\ MathDet(mat_a) = 0) =>
         /\ hpc = "exit"
         /\ status = "INVALID_MATRIX"
         /\ errmsg = MsgSingular
         /\ divisions = 0
         /\ mat_c = NoMatrix
         /\ output = NoOutput
    /\ (InverseRan /\ MathDet(mat_a) # 0) =>
         /\ status # "INVALID_MATRIX"
         /\ errmsg = ""
         /\ mat_c.rows = mat_a.rows
         /\ \A k \in DOMAIN mat_c.values : mat_c.values[k].den # 0

\* A singular 3 x 3 matrix with a nonzero element was refused.
Wit_C9 ==
    /\ InverseRan
    /\ mat_a.rows = 3
    /\ mat_a.values[0] # 0
    /\ MathDet(mat_a) = 0
    /\ errmsg = MsgSingular

ProductRan ==
    /\ operation = "m"
    /\ hpc \in {"computed", "done", "exit"}
    /\ mat_b # NoMatrix

----------------------------------------------------------------------------
(* The matrix product, stated independently of the engine *)

\* Element (r, c) of m, rows and columns counted from 0.
At(m, r, c) == m.values[r * m.cols + c]

\* The product of m1 and m2 with m1.cols = m2.rows: element (k, i) is the sum
\* over j of m1[k, j] * m2[j, i].
MathProduct(m1, m2) ==
    [rows |-> m1.rows, cols |-> m2.cols,
     values |-> [x \in 0..(m1.rows * m2.cols - 1) |->
                   SumOver(0..(m1.cols - 1),
                           [j \in 0..(m1.cols - 1) |->
                              At(m1, x \div m2.cols, j) * At(m2, j, x % m2.cols)])]]

\* get_product was called, by the handler or directly, on operands whose
\* shared dimension matches, and returned.
CompatibleCall ==
    /\ prodArgs.caller # "none"
    /\ prodArgs.m1.cols = prodArgs.m2.rows
    /\ status # "crash"

\* C11: for operands with first.cols = second.rows, get_product returns the
\* matrix of dimensions (first.rows, second.cols) whose element (k, i) is the
\* sum over j of first[k, j] * second[j, i], and nothing else: no element
\* carries terms of an element computed before it.
Thm_C11 ==
    CompatibleCall =>
        /\ mat_c.rows = prodArgs.m1.rows
        /\ mat_c.cols = prodArgs.m2.cols
        /\ DOMAIN mat_c.values = 0..(mat_c.rows * mat_c.cols - 1)
        /\ mat_c = MathProduct(prodArgs.m1, prodArgs.m2)

\* A 2 x 3 matrix was multiplied by a 3 x 2 matrix and the last element of
\* the product is not 0.
Wit_C11 ==
    /\ CompatibleCall
    /\ prodArgs.m1.rows = 2
    /\ prodArgs.m1.cols = 3
    /\ prodArgs.m2.cols = 2
    /\ mat_c.values[3] # 0

AdjointRan ==
    /\ operation = "a"
    /\ hpc \in {"computed", "done", "exit"}
    /\ IsSquareInput(mat_a)

\* C12: the adjoint of a 1 x 1 matrix is the 1 x 1 matrix [1] whatever its
\* element; the adjoint of an n x n matrix, n >= 2, is the transpose of the
\* cofactor matrix: its element (j, i) is (-1)^(i+j) times the determinant
\* of the matrix without row i and column j.
Thm_C12 ==
    AdjointRan =>
        /\ mat_c.rows = mat_a.rows
        /\ mat_c.cols = mat_a.cols
        /\ DOMAIN mat_c.values = 0..(mat_a.rows * mat_a.cols - 1)
        /\ mat_a.rows = 1 => mat_c.values[0] = 1
        /\ mat_a.rows >= 2 =>
             \A i, j \in 0..(mat_a.rows - 1) :
                 /\ MinorOf(mat_a, i, j) = MathMinor(mat_a, i, j)
                 /\ At(mat_c, j, i) = MinusOnePow(i + j) * MathDet(MathMinor(mat_a, i, j))

\* The adjoint of a 3 x 3 matrix was computed; it is not symmetric and has a
\* negative element.
Wit_C12 ==
    /\ AdjointRan
    /\ mat_a.rows = 3
    /\ At(mat_c, 0, 1) # At(mat_c, 1, 0)
    /\ \E k \in DOMAIN mat_c.values : mat_c.values[k] < 0

TransposeRan ==
    /\ operation = "t"
    /\ hpc \in {"computed", "done", "exit"}
    /\ mat_a # NoMatrix

\* C13: the transpose of a matrix A, square or not, has dimensions
\* (A.cols, A.rows) and element (j, i) equal to A[i, j]; every index
\* get_transpose reads lies in A's buffer and every index it writes in the
\* result's, each element of which is written; and the transpose of the
\* transpose is A.
Thm_C13 ==
    TransposeRan =>
        /\ mat_c.rows = mat_a.cols
        /\ mat_c.cols = mat_a.rows
        /\ \A i \in 0..(mat_a.rows - 1), j \in 0..(mat_a.cols - 1) :
               At(mat_c, j, i) = At(mat_a, i, j)
        /\ \A i \in 0..(mat_c.cols - 1), j \in 0..(mat_c.rows - 1) :
               /\ TransposeRead(mat_a, i, j) \in 0..(mat_a.rows * mat_a.cols - 1)
               /\ TransposeWrite(mat_c, i, j) \in 0..(mat_c.rows * mat_c.cols - 1)
        /\ DOMAIN mat_c.values = 0..(mat_c.rows * mat_c.cols - 1)
        /\ get_transpose(mat_c) = mat_a

\* A 2 x 3 matrix with different first and last rows was transposed.
Wit_C13 ==
    /\ TransposeRan
    /\ mat_a.rows = 2
    /\ mat_a.cols = 3
    /\ At(mat_a, 0, 1) # At(mat_a, 1, 0)
    /\ At(mat_a, 0, 2) # At(mat_a, 1, 2)
    /\ mat_c.rows = 3

\* C14: with operands A and B parsed, the product handler swaps them, says
\* so, and computes B*A exactly when A.cols # B.rows and B.cols = A.rows; it
\* computes A*B in the stated order whenever A.cols = B.rows, also when B*A
\* would be possible; it fails having computed nothing exactly when neither
\* order is possible; so get_product only gets operands with
\* first.cols = second.rows.
Thm_C14 ==
    ProductRan =>
        LET stated == mat_a.cols = mat_b.rows
            other == mat_a.cols # mat_b.rows /\ mat_b.cols = mat_a.rows
        IN  /\ swapped <=> other
            /\ other =>
                 /\ prodArgs = [caller |-> "product", m1 |-> mat_b, m2 |-> mat_a]
                 /\ mat_c = MathProduct(mat_b, mat_a)
            /\ stated =>
                 /\ prodArgs = [caller |-> "product", m1 |-> mat_a, m2 |-> mat_b]
                 /\ mat_c = MathProduct(mat_a, mat_b)
            /\ (status = "INVALID_MATRIX") <=> (~stated /\ ~other)
            /\ (~stated /\ ~other) => (hpc = "exit" /\ prodArgs = NoCall /\ mat_c = NoMatrix)
            /\ prodArgs # NoCall => prodArgs.m1.cols = prodArgs.m2.rows

\* A 2 x 3 matrix and a 1 x 2 matrix were given in this order; they were
\* swapped and the 1 x 3 product was output.
Wit_C14 ==
    /\ ProductRan
    /\ mat_a.rows = 2
    /\ mat_a.cols = 3
    /\ mat_b.rows = 1
    /\ mat_b.cols = 2
    /\ swapped
    /\ mat_c.rows = 1
    /\ mat_c.cols = 3
    /\ output.written

----------------------------------------------------------------------------
(* Claims about the order of a run *)

\* All the input files of the operation were parsed.
AllParsed ==
    /\ mat_a # NoMatrix
    /\ operation \in TwoFileOps => mat_b # NoMatrix

\* The operands have a shape the operation accepts.
ShapeAccepted ==
    /\ operation \in {"d", "a", "i"} => mat_a.rows = mat_a.cols
    /\ operation = "m" => (mat_a.cols = mat_b.rows \/ mat_b.cols = mat_a.rows)

\* The run ended in a failure.
Failed == status \in {"FILE_OPEN_ERROR", "INVALID_FILE", "INVALID_MATRIX", "crash"}

\* The run is one of main's operations, not a call of the engine alone.
ProgramRun == operation \in OneFileOps \cup {"m"}

----------------------------------------------------------------------------
(* The adjoint and the inverse against the product *)

\* d times the n x n identity matrix.
ScaledIdentity(n, d) ==
    [rows |-> n, cols |-> n,
     values |-> [x \in 0..(n * n - 1) |-> IF x \div n = x % n THEN d ELSE 0]]

\* Element (k, i) of m * inv multiplied by d, for a matrix inv of fractions
\* whose denominators divide d.
TimesInverse(m, inv, k, i, d) ==
    SumOver(0..(m.cols - 1),
            [j \in 0..(m.cols - 1) |->
               At(m, k, j) * At(inv, j, i).num * (d \div At(inv, j, i).den)])

====
